---------------------------- MODULE Spec2Model ----------------------------
(***************************************************************************)
(* Model of bricklayer.api.DBSApi (src/bricklayer/api/__init__.py):        *)
(*   - backup_notebook            (Notebook Transfer)                      *)
(*   - export_current_notebook_run (Run Snapshot Orchestrator)             *)
(*   - create_job                                                          *)
(* Strings that the code takes apart (paths) are sequences of one-char     *)
(* strings; pathlib.PurePosixPath values are records [root, parts].        *)
(***************************************************************************)
EXTENDS Integers, Sequences, FiniteSets, TLC

(***************************************************************************)
(* Bounds of the model.                                                    *)
(***************************************************************************)
\* longest runs_dir string enumerated by the path specification
MaxRunsLen == 3
\* longest current notebook path enumerated by the path specification
MaxCurLen == 5
\* intermediate names are backup_0 .. backup_MaxTmp (the code draws from 0..1000)
MaxTmp == 1

Chars == {"/", "a", "."}

RECURSIVE StringsUpTo(_)
StringsUpTo(n) ==
    IF n = 0 THEN {<<>>}
    ELSE LET S == StringsUpTo(n - 1)
         IN  S \cup {Append(s, ch) : s \in {t \in S : Len(t) = n - 1}, ch \in Chars}

(***************************************************************************)
(* pathlib.PurePosixPath, as used by the code.                             *)
(***************************************************************************)
\* str.split('/'): the components between slashes, empty ones included
RECURSIVE SplitFrom(_, _, _)
SplitFrom(s, i, cur) ==
    IF i > Len(s) THEN <<cur>>
    ELSE IF s[i] = "/" THEN <<cur>> \o SplitFrom(s, i + 1, <<>>)
    ELSE SplitFrom(s, i + 1, Append(cur, s[i]))

Split(s) == SplitFrom(s, 1, <<>>)

\* number of leading slashes of s
RECURSIVE LeadingSlashes(_)
LeadingSlashes(s) ==
    IF s = <<>> \/ Head(s) # "/" THEN 0 ELSE 1 + LeadingSlashes(Tail(s))

\* _PosixFlavour.splitroot: exactly two leading slashes are kept as the root '//'
RootOf(s) ==
    LET n == LeadingSlashes(s)
    IN  IF n = 0 THEN <<>>
        ELSE IF n = 2 THEN <<"/", "/">>
        ELSE <<"/">>

\* parsing one string: the root, and the components other than '' and '.'
PathOf(s) ==
    [root  |-> RootOf(s),
     parts |-> SelectSeq(Split(s), LAMBDA x : x # <<>> /\ x # <<".">>)]

\* PurePath.joinpath(s): an absolute argument replaces the path
JoinPath(p, s) ==
    LET q == PathOf(s)
    IN  IF q.root # <<>> THEN q
        ELSE [root |-> p.root, parts |-> p.parts \o q.parts]

\* PurePath.parent: the path without its last component (itself when it has none)
Parent(p) ==
    IF p.parts = <<>> THEN p
    ELSE [p EXCEPT !.parts = SubSeq(p.parts, 1, Len(p.parts) - 1)]

RECURSIVE JoinSlash(_)
JoinSlash(parts) ==
    IF parts = <<>> THEN <<>>
    ELSE IF Len(parts) = 1 THEN parts[1]
    ELSE parts[1] \o <<"/">> \o JoinSlash(Tail(parts))

\* PurePath.as_posix() / str(): '.' for the empty path
AsPosix(p) ==
    IF p.root = <<>> /\ p.parts = <<>> THEN <<".">>
    ELSE p.root \o JoinSlash(p.parts)

\* current_path[1:]: the string without its first character
StripFirst(s) == IF s = <<>> THEN <<>> ELSE Tail(s)

\* lines 166-170 with the mutation "the whole current path is joined"
TargetPathKeepSlash(runs_dir, current_path, timestamp) ==
    JoinPath(JoinPath(PathOf(runs_dir), current_path), timestamp)

\* lines 166-170: Path(runs_dir).joinpath(current_path[1:]).joinpath(timestamp)
TargetPath(runs_dir, current_path, timestamp) ==
    JoinPath(JoinPath(PathOf(runs_dir), StripFirst(current_path)), timestamp)

\* line 176 with the mutation "mkdir of the target itself"
MkdirArgTarget(tp) == AsPosix(tp)

\* line 176: target_path.parent.as_posix()
MkdirArg(tp) == AsPosix(Parent(tp))

\* datetime.now().strftime('%Y%m%d%H%M%S'): a string of digits, here two of them
TimeStamps == {<<"2", "0">>, <<"2", "1">>}

(***************************************************************************)
(* Errors.  An error value carries its Python class, the error_code of the *)
(* HTTP response body ("" when there is none), the step that raised it and *)
(* the number of the backup_notebook call it was raised in: two error      *)
(* values are the same exception exactly when they are equal.              *)
(***************************************************************************)
Err(kind, code, at, att) == [kind |-> kind, code |-> code, at |-> at, att |-> att]

NoErr == Err("none", "", "", 0)

RDNE == "RESOURCE_DOES_NOT_EXIST"

\* error codes of the remote API that occur in the model; NoCode is a response
\* body without an 'error_code' key
Codes == {RDNE, "RESOURCE_ALREADY_EXISTS"}

NoCode == ""

\* the ways a remote call (databricks_cli over requests) fails
RemoteFailures(at, att) ==
    {Err("HTTPError", code, at, att) : code \in Codes \cup {NoCode}}
        \cup {Err("ConnectionError", "", at, att)}

Callers == {"c1", "c2"}

\* backup_<n>, n drawn by random.randint(0, 1000) (line 153), here 0..MaxTmp
TmpNames == 0 .. MaxTmp

Absent == "absent"

\* inputs of the sequential specification
RunsDirs == {<<"/", "a", "/">>, <<"a">>}

CurPaths == {<<"/", "a">>, <<"/", "a", "/", "a">>}

Sources == {<<"/", "a">>}

Targets == {<<"/", "a", "/", "a">>, <<"/", "a", "a">>}

NoPath == [root |-> <<>>, parts |-> <<>>]

\* a caller's backup_notebook frame before any call
NoBackup ==
    [pc |-> "none", tmp |-> 0, source |-> <<>>, target |-> <<>>,
     exported |-> FALSE, nImport |-> 0, nUnlink |-> 0, got |-> "none",
     imp |-> NoErr, err |-> NoErr]

\* a caller's export_current_notebook_run frame before any call
NoRun ==
    [op |-> "idle", ost |-> "none", current_path |-> <<>>, target_path |-> NoPath,
     nBackup |-> 0, nMkdir |-> 0, log |-> <<>>, a1err |-> NoErr, err |-> NoErr]

Call(name, a, b) == [call |-> name, a |-> a, b |-> b]

VARIABLES
    active,     \* the callers that invoke operations
    files,      \* the staging directory: name -> who exported it, or Absent
    bk,         \* per caller: the frame of backup_notebook (lines 151-159)
    orc,        \* per caller: the frame of the public operation in progress
    p_pc,       \* path specification: "in" before, "out" after the composition
    p_runs,     \* runs_dir
    p_cur,      \* current notebook path
    p_ts,       \* timestamp
    p_target,   \* target_path.as_posix()
    p_mkdir,    \* target_path.parent.as_posix()
    job,        \* the frame of create_job (lines 181-236)
    jcalls      \* the calls create_job has made to its collaborators, in order

pvars == <<p_pc, p_runs, p_cur, p_ts, p_target, p_mkdir>>

bvars == <<active, files, bk, orc>>

jvars == <<job, jcalls>>

vars == <<active, files, bk, orc, p_pc, p_runs, p_cur, p_ts, p_target, p_mkdir, job, jcalls>>

\* no caller, nothing staged: the value of the transfer variables in the
\* specifications that are not about transfers
IdleBackup ==
    /\ active = {}
    /\ files = [n \in TmpNames |-> Absent]
    /\ bk = [c \in Callers |-> NoBackup]
    /\ orc = [c \in Callers |-> NoRun]

IdlePath ==
    /\ p_pc = "off"
    /\ p_runs = <<>>
    /\ p_cur = <<>>
    /\ p_ts = <<>>
    /\ p_target = <<>>
    /\ p_mkdir = <<>>

\* Python's None, and what an if statement takes for true among the strings
PyNone == "None"

Truthy(x) == x \notin {PyNone, ""}

\* the frame of create_job before any call
NoJob ==
    [pc |-> "idle", notebook_path |-> <<>>, job_name |-> PyNone,
     cluster_name |-> PyNone, cluster_id |-> PyNone, current_path |-> <<>>,
     existing_cluster_id |-> PyNone, name |-> PyNone, resolved |-> <<>>,
     created |-> FALSE, err |-> NoErr]

IdleJob ==
    /\ job = NoJob
    /\ jcalls = <<>>

(***************************************************************************)
(* backup_notebook, lines 151-159.                                         *)
(***************************************************************************)
\* lines 153-154: the frame of a call that has drawn the name n; nothing is
\* looked up in the staging directory
Entered(n, source, target) ==
    [NoBackup EXCEPT !.pc = "export", !.tmp = n, !.source = source, !.target = target]

\* line 155 with the mutation "the export is inside the try block"
ExportFailNextInTry == "unlink"

\* line 155 is outside the try block: a failed export leaves the function
ExportFailNext == "raised"

\* line 155 with the mutation "the export writes backup_0 whatever was drawn"
ExportFileFixed(n) == 0

\* line 155: the file the export writes is the one named by the draw
ExportFile(n) == n

\* lines 156-159 with the mutation "unlink after the import, without finally"
ImportNextNoFinally(e) == IF e = NoErr THEN "unlink" ELSE "raised"

\* lines 156-159: try/finally, the unlink runs whatever the import did
ImportNext(e) == "unlink"

\* line 159 with the mutation "the cleanup swallows the pending error"
UnlinkedNextSwallow(e) == "returned"

\* line 159, the unlink succeeded: the pending error of the import, if any, goes on
UnlinkedNext(e) == IF e = NoErr THEN "returned" ELSE "raised"

\* what export_workspace can do at line 155: succeed (the file is written; when
\* a file of that name is there its content is replaced, the outcome of two
\* exports racing past the library's own check), fail remotely, or refuse a
\* file that exists
ExportOutcomes(c, att) ==
    {NoErr} \cup RemoteFailures("export", att)
        \cup (IF files[ExportFile(bk[c].tmp)] # Absent
              THEN {Err("LocalFileExistsException", "", "export", att)}
              ELSE {})

\* what import_workspace can do at line 157: it opens the local file first
ImportOutcomes(c, att) ==
    IF files[bk[c].tmp] = Absent
    THEN {Err("FileNotFoundError", "", "import", att)}
    ELSE {NoErr} \cup RemoteFailures("import", att)

\* line 155: self.export_notebook(source_path, intermediate_location.as_posix())
Export(c) ==
    /\ bk[c].pc = "export"
    /\ \E o \in ExportOutcomes(c, orc[c].nBackup) :
         IF o = NoErr
         THEN /\ files' = [files EXCEPT ![ExportFile(bk[c].tmp)] = c]
              /\ bk' = [bk EXCEPT ![c] = [@ EXCEPT !.pc = "import", !.exported = TRUE]]
         ELSE /\ files' = files
              /\ bk' = [bk EXCEPT ![c] = [@ EXCEPT !.pc = ExportFailNext, !.err = o]]
    /\ UNCHANGED <<active, orc, pvars, jvars>>

\* line 157: self.import_notebook(intermediate_location, target_path)
Import(c) ==
    /\ bk[c].pc = "import"
    /\ \E o \in ImportOutcomes(c, orc[c].nBackup) :
         bk' = [bk EXCEPT ![c] = [@ EXCEPT !.pc = ImportNext(o),
                                            !.err = o,
                                            !.imp = o,
                                            !.nImport = @ + 1,
                                            !.got = files[bk[c].tmp]]]
    /\ UNCHANGED <<active, files, orc, pvars, jvars>>

\* line 159: intermediate_location.unlink(); a missing file raises, and that
\* error replaces the one the finally block was entered with
Unlink(c) ==
    /\ bk[c].pc = "unlink"
    /\ IF files[bk[c].tmp] # Absent
       THEN /\ files' = [files EXCEPT ![bk[c].tmp] = Absent]
            /\ bk' = [bk EXCEPT ![c] = [@ EXCEPT !.pc = UnlinkedNext(bk[c].err),
                                               !.nUnlink = @ + 1]]
       ELSE /\ files' = files
            /\ bk' = [bk EXCEPT ![c] =
                        [@ EXCEPT !.pc = "raised",
                                  !.nUnlink = @ + 1,
                                  !.err = Err("FileNotFoundError", "", "unlink",
                                              orc[c].nBackup)]]
    /\ UNCHANGED <<active, orc, pvars, jvars>>

BackupDone(c) == bk[c].pc \in {"returned", "raised"}

\* a caller invokes backup_notebook(source, target) itself
CallBackup(c) ==
    /\ c \in active
    /\ orc[c].op = "idle"
    /\ \E source \in Sources, target \in Targets, n \in TmpNames :
         /\ bk' = [bk EXCEPT ![c] = Entered(n, source, target)]
         /\ orc' = [orc EXCEPT ![c] =
                      [NoRun EXCEPT !.op = "backup", !.nBackup = 1,
                                    !.log = <<Call("backup_notebook", source, target)>>]]
    /\ UNCHANGED <<active, files, pvars, jvars>>

(***************************************************************************)
(* export_current_notebook_run, lines 161-179.                             *)
(***************************************************************************)
\* lines 173-179 with the mutation "every error code is answered by mkdir and retry"
HandlerNextRetryAll(e) ==
    IF e = NoErr THEN "SUCCESS"
    ELSE IF e.kind = "HTTPError" /\ e.code # NoCode THEN "NEEDS_DIR"
    ELSE "FAILURE"

\* lines 171-179: where attempt 1 leads.  Only requests' HTTPError is caught;
\* its body's error_code decides between the mkdir branch and the re-raise
HandlerNext(e) ==
    IF e = NoErr THEN "SUCCESS"
    ELSE IF e.kind = "HTTPError" /\ e.code = RDNE THEN "NEEDS_DIR"
    ELSE "FAILURE"

\* lines 173-179 with the mutation "the handler raises an error of its own"
HandlerErrWrapped(e) == Err("Exception", "", "handler", 1)

\* lines 173-179: the error that leaves the handler when it does not retry: a bare
\* raise re-raises the caught error; a body without 'error_code' fails the lookup
\* of line 174 with a KeyError; an error that is not an HTTPError is not caught
HandlerErr(e) ==
    IF e.kind = "HTTPError" /\ e.code = NoCode
    THEN Err("KeyError", "", "handler", 1)
    ELSE e

\* line 177 with the mutation "the retry is handled like attempt 1"
Attempt2NextLoop(e) == HandlerNext(e)

\* line 177: the retry is not guarded: it succeeds or its error leaves the function
Attempt2Next(e) == IF e = NoErr THEN "SUCCESS" ELSE "FAILURE"

\* the caller invokes export_current_notebook_run(runs_dir): lines 164-170
CallSnapshot(c) ==
    /\ c \in active
    /\ orc[c].op = "idle"
    /\ \E runs_dir \in RunsDirs, current_path \in CurPaths, timestamp \in TimeStamps :
         orc' = [orc EXCEPT ![c] =
                   [NoRun EXCEPT !.op = "snapshot", !.ost = "START",
                                 !.current_path = current_path,
                                 !.target_path =
                                     TargetPath(runs_dir, current_path, timestamp)]]
    /\ UNCHANGED <<active, files, bk, pvars, jvars>>

\* line 172: self.backup_notebook(current_path, target_path.as_posix()) is entered
Attempt1(c) ==
    /\ orc[c].op = "snapshot"
    /\ orc[c].ost = "START"
    /\ \E n \in TmpNames :
         bk' = [bk EXCEPT ![c] =
                  Entered(n, orc[c].current_path, AsPosix(orc[c].target_path))]
    /\ orc' = [orc EXCEPT ![c] =
                 [@ EXCEPT !.ost = "ATTEMPT_1", !.nBackup = 1,
                           !.log = <<Call("backup_notebook", orc[c].current_path,
                                          AsPosix(orc[c].target_path))>>]]
    /\ UNCHANGED <<active, files, pvars, jvars>>

\* lines 171-175, 178-179: attempt 1 returns or raises
Attempt1End(c) ==
    /\ orc[c].op = "snapshot"
    /\ orc[c].ost = "ATTEMPT_1"
    /\ BackupDone(c)
    /\ orc' = [orc EXCEPT ![c] =
                 [@ EXCEPT !.ost = HandlerNext(bk[c].err),
                           !.a1err = bk[c].err,
                           !.err = IF HandlerNext(bk[c].err) = "FAILURE"
                                   THEN HandlerErr(bk[c].err) ELSE NoErr]]
    /\ UNCHANGED <<active, files, bk, pvars, jvars>>

\* lines 176-177: self.mkdir(target_path.parent.as_posix()), and when it returns
\* the second backup_notebook call is entered; an error of mkdir leaves the function
Mkdir(c) ==
    /\ orc[c].op = "snapshot"
    /\ orc[c].ost = "NEEDS_DIR"
    /\ \E o \in {NoErr} \cup RemoteFailures("mkdir", orc[c].nBackup), n \in TmpNames :
         LET logged == Append(orc[c].log,
                              Call("mkdir", MkdirArg(orc[c].target_path), <<>>))
         IN  IF o = NoErr
             THEN /\ bk' = [bk EXCEPT ![c] =
                              Entered(n, orc[c].current_path,
                                      AsPosix(orc[c].target_path))]
                  /\ orc' = [orc EXCEPT ![c] =
                               [@ EXCEPT !.ost = "ATTEMPT_2",
                                         !.nMkdir = @ + 1,
                                         !.nBackup = @ + 1,
                                         !.log = Append(logged,
                                             Call("backup_notebook",
                                                  orc[c].current_path,
                                                  AsPosix(orc[c].target_path)))]]
             ELSE /\ bk' = bk
                  /\ orc' = [orc EXCEPT ![c] =
                               [@ EXCEPT !.ost = "FAILURE", !.nMkdir = @ + 1,
                                         !.log = logged, !.err = o]]
    /\ UNCHANGED <<active, files, pvars, jvars>>

\* line 177: attempt 2 returns or raises
Attempt2End(c) ==
    /\ orc[c].op = "snapshot"
    /\ orc[c].ost = "ATTEMPT_2"
    /\ BackupDone(c)
    /\ orc' = [orc EXCEPT ![c] =
                 [@ EXCEPT !.ost = Attempt2Next(bk[c].err),
                           !.err = bk[c].err]]
    /\ UNCHANGED <<active, files, bk, pvars, jvars>>

\* the public operation of caller c has returned or raised
Finished(c) ==
    IF orc[c].op = "snapshot" THEN orc[c].ost \in {"SUCCESS", "FAILURE"}
    ELSE orc[c].op = "backup" /\ BackupDone(c)

\* the caller is back where it may invoke the next operation
Reset(c) ==
    /\ Finished(c)
    /\ bk' = [bk EXCEPT ![c] = NoBackup]
    /\ orc' = [orc EXCEPT ![c] = NoRun]
    /\ UNCHANGED <<active, files, pvars, jvars>>

\* one caller: the operations run one after the other (section 5 of the design)
Init ==
    /\ active = {"c1"}
    /\ files = [n \in TmpNames |-> Absent]
    /\ bk = [c \in Callers |-> NoBackup]
    /\ orc = [c \in Callers |-> NoRun]
    /\ IdlePath
    /\ IdleJob

Next ==
    \E c \in Callers :
        \/ CallBackup(c)
        \/ CallSnapshot(c)
        \/ Export(c)
        \/ Import(c)
        \/ Unlink(c)
        \/ Attempt1(c)
        \/ Attempt1End(c)
        \/ Mkdir(c)
        \/ Attempt2End(c)
        \/ Reset(c)

Spec == Init /\ [][Next]_vars

\* every started operation is carried through: each blocking call returns
FairSpec == Spec /\ WF_vars(Next)

\* several callers, each invoking backup_notebook once, their steps interleaved
InitConc ==
    /\ active = Callers
    /\ files = [n \in TmpNames |-> Absent]
    /\ bk = [c \in Callers |-> NoBackup]
    /\ orc = [c \in Callers |-> NoRun]
    /\ IdlePath
    /\ IdleJob

NextConc ==
    \E c \in Callers :
        \/ CallBackup(c)
        \/ Export(c)
        \/ Import(c)
        \/ Unlink(c)

SpecConc == InitConc /\ [][NextConc]_vars

(***************************************************************************)
(* Notebook Transfer: properties of backup_notebook called by one caller.  *)
(***************************************************************************)
\* C1: a backup_notebook call whose export succeeded issues the unlink of its
\* intermediate file exactly once before it returns or raises, whether the
\* import succeeded or failed, and the file is gone then; no call unlinks twice.
C1_DeletedExactlyOnce ==
    \A c \in Callers :
        /\ bk[c].nUnlink <= 1
        /\ (bk[c].exported /\ BackupDone(c)) =>
               /\ bk[c].nUnlink = 1
               /\ bk[c].err.at # "unlink"
               /\ files[bk[c].tmp] = Absent

\* a call whose export succeeded and whose import failed has ended
C1_Witness ==
    \E c \in Callers :
        /\ bk[c].exported
        /\ bk[c].pc = "raised"
        /\ bk[c].imp.kind = "HTTPError"
        /\ bk[c].nUnlink = 1

\* C2: when the export fails the call ends there: no intermediate file was
\* written, no unlink is issued, the import is not invoked, and the error the
\* caller gets is the export's.
C2_ExportFailure ==
    \A c \in Callers :
        (bk[c].pc \notin {"none", "export"} /\ ~bk[c].exported) =>
            /\ bk[c].pc = "raised"
            /\ bk[c].nUnlink = 0
            /\ bk[c].nImport = 0
            /\ bk[c].err \in RemoteFailures("export", orc[c].nBackup)
            /\ files[bk[c].tmp] = Absent

\* a call whose export failed with an HTTP error has ended
C2_Witness ==
    \E c \in Callers :
        /\ bk[c].pc = "raised"
        /\ ~bk[c].exported
        /\ bk[c].err.kind = "HTTPError"
        /\ bk[c].err.at = "export"

\* C6: when the import fails, the unlink is done and then the caller gets the
\* import's own error, not one raised by the cleanup.
C6_ImportErrorPropagates ==
    \A c \in Callers :
        (bk[c].imp # NoErr /\ bk[c].pc # "unlink") =>
            /\ bk[c].pc = "raised"
            /\ bk[c].nUnlink = 1
            /\ files[bk[c].tmp] = Absent
            /\ bk[c].err = bk[c].imp
            /\ bk[c].err.at = "import"

\* a call whose import failed remotely has raised, after its cleanup
C6_Witness ==
    \E c \in Callers :
        /\ bk[c].imp \in RemoteFailures("import", 1)
        /\ bk[c].pc = "raised"
        /\ bk[c].nUnlink = 1

(***************************************************************************)
(* Run Snapshot Orchestrator: properties of export_current_notebook_run.   *)
(***************************************************************************)
\* the segments of a path string: what stands between its slashes, the empty
\* components and the '.' components aside
Segments(s) == SelectSeq(Split(s), LAMBDA x : x # <<>> /\ x # <<".">>)

AllButLast(q) == IF q = <<>> THEN <<>> ELSE SubSeq(q, 1, Len(q) - 1)

Absolute(s) == s # <<>> /\ Head(s) = "/"

\* the calls of one kind in a log
CallsOf(log, name) == SelectSeq(log, LAMBDA x : x.call = name)

\* C3: an invocation issues at most two backup_notebook calls and at most one
\* mkdir, whatever the remote calls do.
C3_AtMostTwoAttempts ==
    \A c \in Callers :
        /\ orc[c].nBackup <= 2
        /\ orc[c].nMkdir <= 1
        /\ Len(CallsOf(orc[c].log, "backup_notebook")) = orc[c].nBackup
        /\ Len(CallsOf(orc[c].log, "mkdir")) = orc[c].nMkdir

\* the second attempt itself failed with RESOURCE_DOES_NOT_EXIST
C3_Witness ==
    \E c \in Callers :
        /\ orc[c].ost = "FAILURE"
        /\ orc[c].nBackup = 2
        /\ orc[c].nMkdir = 1
        /\ orc[c].err = Err("HTTPError", RDNE, "import", 2)

\* C4: after attempt 1 failed with error_code RESOURCE_DOES_NOT_EXIST, the
\* next call is mkdir on the parent of target_path, and the call after it, if
\* any, is the second backup_notebook, with the arguments of the first.
C4_MkdirBeforeRetry ==
    \A c \in Callers :
        (/\ orc[c].op = "snapshot"
         /\ orc[c].a1err.kind = "HTTPError"
         /\ orc[c].a1err.code = RDNE) =>
            LET log == orc[c].log
            IN  /\ orc[c].ost \in {"NEEDS_DIR", "ATTEMPT_2", "SUCCESS", "FAILURE"}
                /\ log[1].call = "backup_notebook"
                /\ log[1].a = orc[c].current_path
                /\ orc[c].ost = "NEEDS_DIR" => Len(log) = 1
                /\ orc[c].ost # "NEEDS_DIR" =>
                       /\ Len(log) \in {2, 3}
                       /\ log[2].call = "mkdir"
                       /\ Segments(log[2].a) = AllButLast(Segments(log[1].b))
                       /\ Absolute(log[2].a) = Absolute(log[1].b)
                       /\ Len(log) = 3 => log[3] = log[1]
                       /\ orc[c].ost \in {"ATTEMPT_2", "SUCCESS"} => Len(log) = 3

\* the retry after the mkdir succeeded
C4_Witness ==
    \E c \in Callers :
        /\ orc[c].ost = "SUCCESS"
        /\ orc[c].a1err = Err("HTTPError", RDNE, "import", 1)
        /\ Len(orc[c].log) = 3
        /\ orc[c].log[2].call = "mkdir"

\* C5: after attempt 1 failed with an error_code other than
\* RESOURCE_DOES_NOT_EXIST, the invocation has failed with that very error, no
\* mkdir was called and no second attempt made.
C5_OtherCodePropagates ==
    \A c \in Callers :
        (/\ orc[c].op = "snapshot"
         /\ orc[c].a1err.kind = "HTTPError"
         /\ orc[c].a1err.code \notin {RDNE, NoCode}) =>
            /\ orc[c].ost = "FAILURE"
            /\ orc[c].nMkdir = 0
            /\ orc[c].nBackup = 1
            /\ Len(orc[c].log) = 1
            /\ orc[c].err = bk[c].err
            /\ orc[c].err.att = 1
            /\ orc[c].err.kind = "HTTPError"
            /\ orc[c].err.code = orc[c].a1err.code

\* attempt 1 failed with RESOURCE_ALREADY_EXISTS
C5_Witness ==
    \E c \in Callers :
        /\ orc[c].ost = "FAILURE"
        /\ orc[c].a1err = Err("HTTPError", "RESOURCE_ALREADY_EXISTS", "import", 1)

\* the transitions of the state machine as the design draws it
DrawnTransitions ==
    {<<"none", "START">>, <<"START", "ATTEMPT_1">>,
     <<"ATTEMPT_1", "SUCCESS">>, <<"ATTEMPT_1", "NEEDS_DIR">>,
     <<"ATTEMPT_1", "FAILURE">>, <<"NEEDS_DIR", "ATTEMPT_2">>,
     <<"ATTEMPT_2", "SUCCESS">>, <<"ATTEMPT_2", "FAILURE">>,
     <<"SUCCESS", "none">>, <<"FAILURE", "none">>}

\* what goes with each transition of caller c
TransitionRules(c) ==
    /\ (orc[c].ost = "ATTEMPT_1" /\ orc'[c].ost = "NEEDS_DIR") =>
           (bk[c].err.kind = "HTTPError" /\ bk[c].err.code = RDNE)
    /\ (orc[c].ost = "ATTEMPT_1" /\ orc'[c].ost = "SUCCESS") => bk[c].pc = "returned"
    /\ (orc[c].ost = "ATTEMPT_1" /\ orc'[c].ost = "FAILURE") =>
           /\ bk[c].pc = "raised"
           /\ ~(bk[c].err.kind = "HTTPError" /\ bk[c].err.code = RDNE)
    /\ (orc[c].ost = "ATTEMPT_2" /\ orc'[c].ost = "SUCCESS") => bk[c].pc = "returned"
    /\ (orc[c].ost = "ATTEMPT_2" /\ orc'[c].ost = "FAILURE") =>
           /\ bk[c].pc = "raised"
           /\ orc'[c].err = bk[c].err
           /\ orc'[c].err.att = 2

\* C7 as stated: only the drawn transitions are taken, so that NEEDS_DIR is
\* always followed by ATTEMPT_2.
C7_Original ==
    [][\A c \in Callers :
         orc'[c].ost # orc[c].ost =>
             /\ <<orc[c].ost, orc'[c].ost>> \in DrawnTransitions
             /\ TransitionRules(c)]_vars

\* C7, amended: an invocation takes only the drawn transitions and
\* NEEDS_DIR -> FAILURE, the latter exactly when mkdir fails, with mkdir's
\* error; NEEDS_DIR is entered only from ATTEMPT_1 on RESOURCE_DOES_NOT_EXIST;
\* a failure of ATTEMPT_2 leads to FAILURE with that error; and every started
\* invocation ends in SUCCESS or FAILURE.
C7_Amended ==
    /\ [][\A c \in Callers :
            orc'[c].ost # orc[c].ost =>
                /\ <<orc[c].ost, orc'[c].ost>>
                       \in DrawnTransitions \cup {<<"NEEDS_DIR", "FAILURE">>}
                /\ TransitionRules(c)
                /\ (orc[c].ost = "NEEDS_DIR" /\ orc'[c].ost = "FAILURE") =>
                       orc'[c].err \in RemoteFailures("mkdir", 1)]_vars
    /\ \A c \in Callers :
           (orc[c].ost = "START") ~> (orc[c].ost \in {"SUCCESS", "FAILURE"})

\* the mkdir of the recovery branch failed, and the invocation with it
C7_Witness ==
    \E c \in Callers :
        /\ orc[c].ost = "FAILURE"
        /\ orc[c].a1err.code = RDNE
        /\ orc[c].err.at = "mkdir"
        /\ orc[c].nBackup = 1

(***************************************************************************)
(* Concurrent callers of backup_notebook.                                  *)
(***************************************************************************)
\* another caller's call uses the intermediate name of c's call
SameName(c) ==
    \E d \in Callers \ {c} : bk[d].pc # "none" /\ bk[d].tmp = bk[c].tmp

\* c's call imported what another call exported, or found its file missing or
\* already there
Disturbed(c) ==
    \/ bk[c].got \in Callers \ {c}
    \/ bk[c].got = Absent
    \/ bk[c].err.kind \in {"FileNotFoundError", "LocalFileExistsException"}

\* C10: calls are disturbed - one imports what the other exported, or finds
\* its intermediate file removed at the import or at the cleanup - exactly
\* through a shared intermediate name: a disturbed call shares its name with
\* another call, and nothing keeps two calls from drawing the same name.
C10_CollisionRisk ==
    \A c \in Callers : Disturbed(c) => SameName(c)

\* c1 imported what c2 exported and removed the file; c2's import and cleanup
\* both found it missing
C10_Witness ==
    /\ bk["c1"].got = "c2"
    /\ bk["c1"].pc = "returned"
    /\ bk["c2"].imp = Err("FileNotFoundError", "", "import", 1)
    /\ bk["c2"].err = Err("FileNotFoundError", "", "unlink", 1)
    /\ bk["c2"].pc = "raised"

(***************************************************************************)
(* create_job, lines 181-236.                                              *)
(***************************************************************************)
NotebookPaths == {<<"/", "a">>, <<"a">>, <<"a", "/", "a">>, <<".", "/", "a">>}

JobNames == {PyNone, "nightly"}

ClusterNames == {PyNone, "", "main"}

ClusterIds == {PyNone, "", "0101"}

\* the calls that go to the remote API (the others read the notebook context)
RemoteCalls == {"get_cluster_id_for_name", "create_job"}

\* line 193 with the mutation "the assert is gone" (or compiled away)
AssertOff(cluster_id) == TRUE

\* line 193: assert cluster_id is None
AssertOk(cluster_id) == cluster_id = PyNone

\* lines 206-213: a relative notebook_path is taken from the directory of the
\* current notebook
ResolvedPath(notebook_path, current_path) ==
    IF PathOf(notebook_path).root # <<>> THEN notebook_path
    ELSE AsPosix(JoinPath(Parent(PathOf(current_path)), notebook_path))

\* a caller invokes create_job(notebook_path, job_name, cluster_name, cluster_id)
CallCreateJob ==
    /\ job.pc = "idle"
    /\ \E np \in NotebookPaths, jn \in JobNames, cn \in ClusterNames,
          ci \in ClusterIds, cp \in CurPaths :
         job' = [NoJob EXCEPT !.pc = "cluster", !.notebook_path = np,
                              !.job_name = jn, !.cluster_name = cn,
                              !.cluster_id = ci, !.current_path = cp]
    /\ jcalls' = <<>>
    /\ UNCHANGED <<bvars, pvars>>

\* lines 192-198, up to the lookup of the cluster by its name
JobCluster ==
    /\ job.pc = "cluster"
    /\ IF Truthy(job.cluster_name)
       THEN IF AssertOk(job.cluster_id)
            THEN /\ job' = [job EXCEPT !.pc = "lookup"]
                 /\ jcalls' = jcalls
            ELSE /\ job' = [job EXCEPT !.pc = "raised",
                                       !.err = Err("AssertionError", "", "assert", 0)]
                 /\ jcalls' = jcalls
       ELSE IF Truthy(job.cluster_id)
            THEN /\ job' = [job EXCEPT !.pc = "resolve",
                                       !.existing_cluster_id = job.cluster_id]
                 /\ jcalls' = jcalls
            ELSE /\ job' = [job EXCEPT !.pc = "resolve",
                                       !.existing_cluster_id = "context-cluster"]
                 /\ jcalls' = Append(jcalls, "get_notebook_cluster_id")
    /\ UNCHANGED <<bvars, pvars>>

\* line 194: ClusterApi(self._client).get_cluster_id_for_name(cluster_name)
JobLookup ==
    /\ job.pc = "lookup"
    /\ jcalls' = Append(jcalls, "get_cluster_id_for_name")
    /\ \E o \in {NoErr} \cup RemoteFailures("get_cluster_id_for_name", 0) :
         IF o = NoErr
         THEN job' = [job EXCEPT !.pc = "resolve", !.existing_cluster_id = "id-of-main"]
         ELSE job' = [job EXCEPT !.pc = "raised", !.err = o]
    /\ UNCHANGED <<bvars, pvars>>

\* lines 200-231: the job's name, its notebook path and the request body
JobResolve ==
    /\ job.pc = "resolve"
    /\ job' = [job EXCEPT
                 !.pc = "create",
                 !.name = IF Truthy(job.job_name) THEN job.job_name
                          ELSE job.notebook_path,
                 !.resolved = ResolvedPath(job.notebook_path, job.current_path)]
    /\ jcalls' = IF PathOf(job.notebook_path).root # <<>> THEN jcalls
                 ELSE Append(jcalls, "get_notebook_path")
    /\ UNCHANGED <<bvars, pvars>>

\* lines 232-236: JobsApi(self._client).create_job(_json), then the DBJob
JobCreate ==
    /\ job.pc = "create"
    /\ jcalls' = Append(jcalls, "create_job")
    /\ \E o \in {NoErr} \cup RemoteFailures("create_job", 0) :
         IF o = NoErr
         THEN job' = [job EXCEPT !.pc = "returned", !.created = TRUE]
         ELSE job' = [job EXCEPT !.pc = "raised", !.err = o]
    /\ UNCHANGED <<bvars, pvars>>

JobReset ==
    /\ job.pc \in {"returned", "raised"}
    /\ job' = NoJob
    /\ jcalls' = <<>>
    /\ UNCHANGED <<bvars, pvars>>

InitJob ==
    /\ IdleJob
    /\ IdleBackup
    /\ IdlePath

NextJob ==
    \/ CallCreateJob
    \/ JobCluster
    \/ JobLookup
    \/ JobResolve
    \/ JobCreate
    \/ JobReset

SpecJob == InitJob /\ [][NextJob]_vars

\* C9: create_job given a cluster name and a cluster id raises the assertion's
\* error before it has called the remote API (no lookup of the cluster, no
\* creation of the job), and no job is created.
C9_BothClusterArgs ==
    (/\ job.pc \notin {"idle", "cluster"}
     /\ Truthy(job.cluster_name)
     /\ job.cluster_id # PyNone) =>
        /\ job.pc = "raised"
        /\ job.err.kind = "AssertionError"
        /\ \A i \in 1 .. Len(jcalls) : jcalls[i] \notin RemoteCalls
        /\ ~job.created

\* create_job(cluster_name='main', cluster_id='0101') has raised
C9_Witness ==
    /\ job.pc = "raised"
    /\ job.cluster_name = "main"
    /\ job.cluster_id = "0101"
    /\ job.err.kind = "AssertionError"

(***************************************************************************)
(* The composition of target_path, lines 164-176.                          *)
(***************************************************************************)
\* the string without its leading slash, if it has one
WithoutLeadingSlash(s) == IF Absolute(s) THEN Tail(s) ELSE s

\* target_path is runs_dir's segments, then the current path's, then the
\* timestamp, anchored as runs_dir is; mkdir gets it without its last segment
Composed ==
    /\ Segments(p_target) =
           Segments(p_runs) \o Segments(WithoutLeadingSlash(p_cur)) \o <<p_ts>>
    /\ Absolute(p_target) = Absolute(p_runs)
    /\ Segments(p_mkdir) = AllButLast(Segments(p_target))
    /\ Absolute(p_mkdir) = Absolute(p_target)

C8_OneLeadingSlash == (p_pc = "out" /\ LeadingSlashes(p_cur) = 1) => Composed

InitPath ==
    /\ p_pc = "in"
    /\ p_runs \in StringsUpTo(MaxRunsLen)
    /\ p_cur \in StringsUpTo(MaxCurLen)
    /\ p_ts \in TimeStamps
    /\ p_target = <<>>
    /\ p_mkdir = <<>>
    /\ IdleBackup
    /\ IdleJob

Compose ==
    /\ p_pc = "in"
    /\ p_pc' = "out"
    /\ p_target' = AsPosix(TargetPath(p_runs, p_cur, p_ts))
    /\ p_mkdir' = MkdirArg(TargetPath(p_runs, p_cur, p_ts))
    /\ UNCHANGED <<p_runs, p_cur, p_ts>>

NextPath == Compose /\ UNCHANGED <<bvars, jvars>>

SpecPath == InitPath /\ [][NextPath]_vars

=============================================================================
